---- MODULE Spec2Model ----
(***************************************************************************)
(* The WebSocket transport of the OpAMP client: client/wsclient.go and      *)
(* client/internal/receiver.go.                                            *)
(*                                                                         *)
(* Tasks: the supervisor goroutine (runUntilStopped -> runOneCycle ->      *)
(* ensureConnected -> tryConnectOnce), the caller of Stop, and per cycle   *)
(* and per agent one Sender writer loop, one Receiver reader loop (with    *)
(* its read helper) and one coordinator goroutine.                         *)
(*                                                                         *)
(* WSSender, ClientCommon and the received-message processor are not part  *)
(* of the sources at hand; they follow their written contract (sections    *)
(* 4.B, 4.D and 4.E-shared of spec.md).                                    *)
(***************************************************************************)
EXTENDS Integers, Sequences, FiniteSets, TLC

\* Largest number of agents in settings.Agents.
NumAgents == 2
\* Largest number of agents in settings.Agents under the fair specification.
NumFairAgents == 1
\* Largest number of upgrades the server accepts (connections, hence cycles).
MaxCycles == 2
\* Largest number of HTTP responses the server gives to failed upgrades.
MaxResponses == 2
\* The largest interval NextBackOff() returns.
MaxBackoff == 2
\* The largest Retry-After hint of the server.
MaxRetryAfter == 3
\* The longest settings.Agents.
MaxAgentList == 4
\* The number of frames the server sends.
MaxFrames == 2

Uids == 1..NumAgents
Cycles == 1..MaxCycles

VARIABLES
  startPc,         \* the caller of PrepareStart and Start
  settingsAgents,  \* settings.Agents, as InstanceUids
  tlsConfig,       \* settings.TLSConfig != nil
  pending,         \* the agents PrepareStart's range loop has yet to visit
  sendersNil,      \* c.senders is the nil map
  agents,          \* keys of c.senders (InstanceUids of settings.Agents)
  checkRedirectSet,\* c.common.Callbacks.CheckRedirect != nil
  srv,             \* what the server may answer to a dial
  locations,       \* the Location headers the server puts in its 3xx responses
  accepts,         \* number of upgrades the server still accepts
  isStopping,      \* ClientCommon's stopping flag
  ctxCancelled,    \* the context given to runUntilStopped is cancelled
  stopPc,          \* the caller of Stop
  supPc,           \* the supervisor goroutine
  todo,            \* agents a range loop of runOneCycle has yet to visit
  url,             \* c.url
  responseChain,   \* c.responseChain
  err,             \* tryConnectOnce's named result err
  resp,            \* tryConnectOnce's resp
  redirecting,     \* tryConnectOnce's redirecting
  lastInternalErr, \* c.lastInternalErr
  conn,            \* c.conn (0: nil, k: the connection of the k-th successful dial)
  connMutex,       \* c.connMutex
  connOpen,        \* connections dialled and not yet closed
  cycle,           \* number of successful dials so far
  nresp,           \* number of HTTP responses received so far
  sndCtx,          \* cycles whose senderCtx has been cancelled by stopSender
  rcvCtx,          \* cycles whose receiverCtx has been cancelled by stopReceiver
  snd,             \* snd[k][a]: the writer loop sender a runs in cycle k
  sndErr,          \* sndErr[k][a]: its StoppingErr
  rcv,             \* rcv[k][a]: the reader loop of agent a's receiver in cycle k
  rcvRes,          \* rcvRes[k][a]: what its read helper has put on result
  coord,           \* coord[k][a]: the coordinator goroutine of the pair
  nread,           \* number of frames read from the connections so far
  rcvFrame,        \* rcvFrame[k][a]: the frame of the message its read helper holds
  dispatched,      \* the messages handed to the processors, in order, with their receivers
  ocfCalls,        \* OnConnectFailed invocations of the current attempt
  ocfArgs,         \* the errors they were given, in order
  dialUrl,         \* the URL given to DialContext in the current attempt
  backoffs,        \* the intervals infiniteBackoff.NextBackOff() may return
  retryAfters,     \* the Retry-After hints the server may put in a response
  interval,        \* ensureConnected's interval
  timerDur,        \* the duration the timer of the current iteration was armed with
  retryAfter,      \* the retryAfter tryConnectOnce returns (NoRetryAfter: not Defined)
  prevBackoff,     \* the interval NextBackOff() returned before the previous attempt
  retried,         \* this call of ensureConnected has had a failed attempt
  stopAtFail,      \* the stopping flag was set when the current attempt's dial failed
  redirSeen,       \* the consecutive redirect responses of this connection establishment
  checkArgs,       \* the arguments of the CheckRedirect invocation just made
  procPc,          \* the caller of processReceivedMessage
  msg,             \* the ServerToAgent message given to processReceivedMessage
  invoked          \* the callbacks processReceivedMessage has invoked for msg

vars == <<startPc, settingsAgents, tlsConfig, pending, sendersNil, agents, checkRedirectSet,
          srv, locations, accepts, isStopping, ctxCancelled, stopPc, supPc, todo,
          url, responseChain, err, resp, redirecting, lastInternalErr, conn, connMutex,
          connOpen, cycle, nresp, sndCtx, rcvCtx, snd, sndErr, rcv, rcvRes, coord, nread,
          rcvFrame, dispatched,
          ocfCalls, ocfArgs, dialUrl, backoffs, retryAfters, interval, timerDur, retryAfter,
          prevBackoff, retried, stopAtFail, redirSeen, checkArgs, procPc, msg, invoked>>

procVars == <<procPc, msg, invoked>>
startVars == <<startPc, settingsAgents, tlsConfig, pending, sendersNil>>
clientVars == <<startVars, agents, checkRedirectSet, srv, locations, backoffs, retryAfters,
                procVars>>
stopVars == <<isStopping, ctxCancelled, stopPc>>
tryVars == <<err, resp, redirecting, ocfCalls, ocfArgs, dialUrl, stopAtFail, checkArgs>>
backoffVars == <<interval, timerDur, retryAfter, prevBackoff, retried>>
connVars == <<conn, connMutex, connOpen, cycle, accepts>>
redirVars == <<url, responseChain, nresp, redirSeen>>
ctxVars == <<sndCtx, rcvCtx>>
taskVars == <<snd, sndErr, rcv, rcvRes, coord>>
frameVars == <<nread, rcvFrame, dispatched>>

(***************************************************************************)
(* URLs, requests and responses.                                           *)
(***************************************************************************)
\* settings.OpAMPServerURL as parsed by Start.
StartURL == [scheme |-> "ws", host |-> "h1"]
\* A Location header that resp.Location() cannot return.
NoLocation == [scheme |-> "", host |-> ""]
\* The Location headers a server may use.
Locations == {[scheme |-> "http", host |-> "h2"], [scheme |-> "https", host |-> "h3"],
              [scheme |-> "wss", host |-> "h4"], NoLocation}
\* Those of a server that redirects to http and https URLs only.
HttpLocations == {l \in Locations : l.scheme # "wss"}
NoRequest == [id |-> 0, url |-> NoLocation]
NoResp == [id |-> 0, status |-> "", loc |-> NoLocation, req |-> NoRequest]
\* sharedinternal.OptionalDuration{Defined: false}; a Defined duration is positive.
NoRetryAfter == 0
NoArgs == [called |-> FALSE, next |-> NoLocation, reqs |-> <<>>, via |-> <<>>]

\* The response a failed upgrade carries: resp.Request is the request that was sent.
Response(n, status, loc, u) ==
  [id |-> n, status |-> status, loc |-> loc, req |-> [id |-> n, url |-> u]]

viaReq(resps) == [i \in 1..Len(resps) |-> resps[i].req]

\* errors.Is(err, context.Canceled)
IsCanceled(e) == e \in {"canceled", "urlerrCanceled"}

\* What the user's CheckRedirect may return: nil, an error, context.Canceled.
CheckVerdicts == {"nil", "errUser", "errCanceled"}

\* handleRedirect without the rewrite of the scheme.
rewriteSchemeNone(u) == u

\* handleRedirect, lines 214-219.
rewriteScheme(u) ==
  IF u.scheme = "http" THEN [u EXCEPT !.scheme = "ws"]
  ELSE IF u.scheme = "https" THEN [u EXCEPT !.scheme = "wss"]
  ELSE u

\* handleRedirect(ctx, resp) with the verdict the user's CheckRedirect gives when it
\* is asked: the new responseChain and url, the returned error, and the arguments
\* CheckRedirect was called with.
handleRedirect(r, verdict) ==
  LET chain == Append(responseChain, r)
      asked == [called |-> TRUE, next |-> r.loc, reqs |-> viaReq(chain), via |-> chain]
  IN  IF r.loc = NoLocation
        THEN [chain |-> chain, url |-> url, err |-> "noLocation", args |-> NoArgs]
      ELSE IF checkRedirectSet /\ verdict # "nil"
        THEN [chain |-> chain, url |-> url, args |-> asked,
              err |-> IF verdict = "errCanceled" THEN "urlerrCanceled" ELSE "urlerr"]
      ELSE [chain |-> chain, url |-> rewriteScheme(r.loc), err |-> "nil",
            args |-> IF checkRedirectSet THEN asked ELSE NoArgs]

(***************************************************************************)
(* PrepareStart and Start.                                                 *)
(***************************************************************************)
\* PrepareStart, lines 73-80: the loop body for the next agent of settings.Agents;
\* the assignment to an entry of a nil map panics.
PrepareStartAgent ==
  /\ startPc = "new"
  /\ pending # <<>>
  /\ IF sendersNil
       THEN /\ startPc' = "panicked"
            /\ UNCHANGED <<agents, pending>>
       ELSE /\ agents' = agents \cup {Head(pending)}
            /\ pending' = Tail(pending)
            /\ UNCHANGED startPc
  /\ UNCHANGED <<settingsAgents, tlsConfig, sendersNil, checkRedirectSet, srv, locations,
                 backoffs, retryAfters, procVars, frameVars, backoffVars, stopVars, supPc, todo,
                 tryVars, lastInternalErr, connVars, redirVars, ctxVars, taskVars>>

\* PrepareStart, line 82: c.common.PrepareStart(ctx, settings) and its result.
PrepareStartCommon ==
  /\ startPc = "new"
  /\ pending = <<>>
  /\ \E ok \in BOOLEAN : startPc' = IF ok THEN "prepared" ELSE "failed"
  /\ UNCHANGED <<settingsAgents, tlsConfig, pending, sendersNil, agents, checkRedirectSet,
                 srv, locations, backoffs, retryAfters, procVars, frameVars, backoffVars, stopVars,
                 supPc, todo, tryVars, lastInternalErr, connVars, redirVars, ctxVars,
                 taskVars>>

\* Start, lines 85-120: c.url is parsed, its scheme forced to wss with a TLSConfig,
\* and StartConnectAndRun launches runUntilStopped.
StartClient ==
  /\ startPc = "prepared"
  /\ startPc' = "started"
  /\ url' = IF tlsConfig THEN [StartURL EXCEPT !.scheme = "wss"] ELSE StartURL
  /\ supPc' = "loop"
  /\ UNCHANGED <<settingsAgents, tlsConfig, pending, sendersNil, agents, checkRedirectSet,
                 srv, locations, backoffs, retryAfters, procVars, frameVars, backoffVars, stopVars,
                 todo, tryVars, lastInternalErr, connVars, responseChain, nresp, redirSeen,
                 ctxVars, taskVars>>

(***************************************************************************)
(* The supervisor goroutine.                                               *)
(***************************************************************************)
\* RunUntilStopped without its IsStopping check.
RunUntilStoppedNoCheck ==
  /\ supPc = "loop"
  /\ supPc' = "timer"
  /\ UNCHANGED <<clientVars, frameVars, backoffVars, stopVars, todo, tryVars, lastInternalErr, connVars,
                 redirVars, ctxVars, taskVars>>

\* RunUntilStopped without its loop: it returns after the first cycle.
RunUntilStoppedOnce ==
  /\ supPc = "loop"
  /\ supPc' = IF isStopping \/ cycle > 0 THEN "exited" ELSE "timer"
  /\ UNCHANGED <<clientVars, frameVars, backoffVars, stopVars, todo, tryVars, lastInternalErr, connVars,
                 redirVars, ctxVars, taskVars>>

\* runUntilStopped: one iteration of the loop, up to the call of ensureConnected.
RunUntilStopped ==
  /\ supPc = "loop"
  /\ supPc' = IF isStopping THEN "exited" ELSE "timer"
  /\ UNCHANGED <<clientVars, frameVars, backoffVars, stopVars, todo, tryVars, lastInternalErr, connVars,
                 redirVars, ctxVars, taskVars>>

\* ensureConnected returns: its locals are gone (interval := 0 at the next entry).
LeaveEnsure ==
  /\ interval' = 0
  /\ timerDur' = 0
  /\ retryAfter' = NoRetryAfter
  /\ prevBackoff' = 0
  /\ retried' = FALSE

\* ensureConnected, lines 283-289: the timer is armed with interval, interval becomes
\* the next backoff, the timer fires and tryConnectOnce calls DialContext with c.url.
EnsureTimer ==
  /\ supPc = "timer"
  /\ supPc' = "dialing"
  /\ timerDur' = interval
  /\ \E b \in backoffs : interval' = b
  /\ dialUrl' = url
  /\ UNCHANGED <<clientVars, frameVars, retryAfter, prevBackoff, retried, stopVars, todo, err, resp,
                 redirecting, ocfCalls, ocfArgs, stopAtFail, checkArgs, lastInternalErr,
                 connVars, redirVars, ctxVars, taskVars>>

\* ensureConnected: ctx.Done() is chosen; runOneCycle returns with it.
EnsureCtxDone ==
  /\ supPc = "timer"
  /\ ctxCancelled
  /\ supPc' = "loop"
  /\ LeaveEnsure
  /\ UNCHANGED <<clientVars, frameVars, stopVars, todo, tryVars, lastInternalErr, connVars,
                 redirVars, ctxVars, taskVars>>

\* What the server may answer to the upgrade request.
ServerResults ==
  (IF "ok" \in srv /\ accepts > 0 THEN {[err |-> "nil", resp |-> NoResp]} ELSE {})
  \cup (IF "neterr" \in srv THEN {[err |-> "neterr", resp |-> NoResp]} ELSE {})
  \cup (IF "5xx" \in srv /\ nresp < MaxResponses
          THEN {[err |-> "badHandshake", resp |-> Response(nresp + 1, "5xx", NoLocation, url)]}
          ELSE {})
  \cup (IF "3xx" \in srv /\ nresp < MaxResponses
          THEN {[err |-> "badHandshake", resp |-> Response(nresp + 1, "3xx", l, url)] :
                  l \in locations}
          ELSE {})

\* What DialContext(ctx, ...) may return: with ctx cancelled, the context's error.
DialResults ==
  IF ctxCancelled THEN {[err |-> "canceled", resp |-> NoResp]} ELSE ServerResults

\* tryConnectOnce, line 243: DialContext returns.
DialComplete ==
  /\ supPc = "dialing"
  /\ \E d \in DialResults :
       /\ err' = d.err
       /\ resp' = d.resp
       /\ supPc' = IF d.err = "nil" THEN "lock" ELSE "chk1"
       /\ cycle' = IF d.err = "nil" THEN cycle + 1 ELSE cycle
       /\ accepts' = IF d.err = "nil" THEN accepts - 1 ELSE accepts
       /\ connOpen' = IF d.err = "nil" THEN connOpen \cup {cycle + 1} ELSE connOpen
       /\ nresp' = IF d.resp = NoResp THEN nresp ELSE nresp + 1
       /\ redirSeen' = IF d.resp.status = "3xx" THEN Append(redirSeen, d.resp) ELSE <<>>
       /\ stopAtFail' = (d.err # "nil" /\ isStopping)
  /\ UNCHANGED <<clientVars, frameVars, backoffVars, stopVars, todo, redirecting, ocfCalls, ocfArgs,
                 dialUrl, checkArgs, lastInternalErr, conn, connMutex, url, responseChain,
                 ctxVars, taskVars>>

\* TryCheckStopping without the IsStopping check: OnConnectFailed is always invoked.
TryCheckStoppingSkipped ==
  /\ supPc = "chk1"
  /\ supPc' = "ocf1"
  /\ UNCHANGED <<clientVars, frameVars, backoffVars, stopVars, todo, tryVars, lastInternalErr, connVars,
                 redirVars, ctxVars, taskVars>>

\* tryConnectOnce, line 245: the IsStopping check before OnConnectFailed.
TryCheckStopping ==
  /\ supPc = "chk1"
  /\ supPc' = IF isStopping THEN "resp" ELSE "ocf1"
  /\ UNCHANGED <<clientVars, frameVars, backoffVars, stopVars, todo, tryVars, lastInternalErr, connVars,
                 redirVars, ctxVars, taskVars>>

\* tryConnectOnce, line 246: OnConnectFailed is invoked.
TryOnConnectFailed ==
  /\ supPc = "ocf1"
  /\ supPc' = "resp"
  /\ ocfCalls' = ocfCalls + 1
  /\ ocfArgs' = Append(ocfArgs, err)
  /\ UNCHANGED <<clientVars, frameVars, backoffVars, stopVars, todo, err, resp, redirecting, dialUrl,
                 stopAtFail, checkArgs, lastInternalErr, connVars, redirVars, ctxVars,
                 taskVars>>

\* tryConnectOnce, lines 248-260: the response of a failed upgrade, with handleRedirect.
TryHandleResponse ==
  /\ supPc = "resp"
  /\ supPc' = "deferred"
  /\ IF resp = NoResp
       THEN retryAfter' = NoRetryAfter
       ELSE \E ra \in retryAfters : retryAfter' = ra
  /\ IF resp # NoResp /\ resp.status = "3xx"
       THEN \E verdict \in CheckVerdicts :
              LET h == handleRedirect(resp, verdict) IN
                /\ redirecting' = TRUE
                /\ responseChain' = h.chain
                /\ url' = h.url
                /\ checkArgs' = h.args
                /\ err' = IF h.err # "nil" THEN h.err ELSE err
       ELSE UNCHANGED <<redirecting, responseChain, url, checkArgs, err>>
  /\ UNCHANGED <<clientVars, frameVars, interval, timerDur, prevBackoff, retried, stopVars, todo, resp,
                 ocfCalls, ocfArgs, dialUrl, stopAtFail, lastInternalErr, connVars, nresp,
                 redirSeen, ctxVars, taskVars>>

\* tryConnectOnce, lines 235-238: the deferred function up to its IsStopping check.
TryDeferred ==
  /\ supPc = "deferred"
  /\ IF err # "nil" /\ ~redirecting
       THEN /\ responseChain' = <<>>
            /\ supPc' = IF isStopping THEN "tryret" ELSE "ocf2"
       ELSE /\ supPc' = "tryret"
            /\ UNCHANGED responseChain
  /\ checkArgs' = NoArgs
  /\ UNCHANGED <<clientVars, frameVars, backoffVars, stopVars, todo, err, resp, redirecting, ocfCalls,
                 ocfArgs, dialUrl, stopAtFail, lastInternalErr, connVars, url, nresp,
                 redirSeen, ctxVars, taskVars>>

\* tryConnectOnce, line 239: the deferred function invokes OnConnectFailed.
TryDeferredOnConnectFailed ==
  /\ supPc = "ocf2"
  /\ supPc' = "tryret"
  /\ ocfCalls' = ocfCalls + 1
  /\ ocfArgs' = Append(ocfArgs, err)
  /\ UNCHANGED <<clientVars, frameVars, backoffVars, stopVars, todo, err, resp, redirecting, dialUrl,
                 stopAtFail, checkArgs, lastInternalErr, connVars, redirVars, ctxVars,
                 taskVars>>

\* EnsureAfterTry without the Retry-After hint: the next wait is the backoff interval.
EnsureAfterTryNoHint ==
  /\ supPc = "tryret"
  /\ supPc' = IF err = "nil" THEN "chkstop" ELSE IF IsCanceled(err) THEN "loop" ELSE "timer"
  /\ lastInternalErr' = IF err = "nil" THEN lastInternalErr ELSE err
  /\ IF err = "nil" \/ IsCanceled(err)
       THEN LeaveEnsure
       ELSE /\ prevBackoff' = interval
            /\ retried' = TRUE
            /\ UNCHANGED <<interval, timerDur, retryAfter>>
  /\ err' = "nil"
  /\ resp' = NoResp
  /\ redirecting' = FALSE
  /\ ocfCalls' = 0
  /\ ocfArgs' = <<>>
  /\ dialUrl' = NoLocation
  /\ stopAtFail' = FALSE
  /\ UNCHANGED <<clientVars, frameVars, stopVars, todo, checkArgs, connVars, redirVars, ctxVars,
                 taskVars>>

\* ensureConnected, lines 289-309: what follows the return of tryConnectOnce, whose
\* locals are gone.
EnsureAfterTry ==
  /\ supPc = "tryret"
  /\ supPc' = IF err = "nil" THEN "chkstop" ELSE IF IsCanceled(err) THEN "loop" ELSE "timer"
  /\ lastInternalErr' = IF err = "nil" THEN lastInternalErr ELSE err
  /\ IF err = "nil" \/ IsCanceled(err)
       THEN LeaveEnsure
       ELSE /\ interval' = IF retryAfter # NoRetryAfter /\ retryAfter > interval
                              THEN retryAfter ELSE interval
            /\ prevBackoff' = interval
            /\ retried' = TRUE
            /\ UNCHANGED <<timerDur, retryAfter>>
  /\ err' = "nil"
  /\ resp' = NoResp
  /\ redirecting' = FALSE
  /\ ocfCalls' = 0
  /\ ocfArgs' = <<>>
  /\ dialUrl' = NoLocation
  /\ stopAtFail' = FALSE
  /\ UNCHANGED <<clientVars, frameVars, stopVars, todo, checkArgs, connVars, redirVars, ctxVars,
                 taskVars>>

\* tryConnectOnce, line 264: c.connMutex.Lock().
ConnLock ==
  /\ supPc = "lock"
  /\ connMutex = "free"
  /\ connMutex' = "supervisor"
  /\ supPc' = "store"
  /\ UNCHANGED <<clientVars, frameVars, backoffVars, stopVars, todo, tryVars, lastInternalErr, conn, connOpen, cycle, accepts,
                 redirVars, ctxVars, taskVars>>

\* tryConnectOnce, line 265: c.conn = conn.
ConnStore ==
  /\ supPc = "store"
  /\ conn' = cycle
  /\ supPc' = "unlock"
  /\ UNCHANGED <<clientVars, frameVars, backoffVars, stopVars, todo, tryVars, lastInternalErr, connMutex, connOpen,
                 cycle, accepts, redirVars, ctxVars, taskVars>>

\* tryConnectOnce, line 266: c.connMutex.Unlock().
ConnUnlock ==
  /\ supPc = "unlock"
  /\ connMutex' = "free"
  /\ supPc' = "onconnect"
  /\ UNCHANGED <<clientVars, frameVars, backoffVars, stopVars, todo, tryVars, lastInternalErr, conn, connOpen, cycle, accepts,
                 redirVars, ctxVars, taskVars>>

\* tryConnectOnce, line 267: OnConnect is invoked.
TryOnConnect ==
  /\ supPc = "onconnect"
  /\ supPc' = "deferred"
  /\ UNCHANGED <<clientVars, frameVars, backoffVars, stopVars, todo, tryVars, lastInternalErr, connVars, redirVars,
                 ctxVars, taskVars>>

\* runOneCycle, lines 339-343: the close of the connection is deferred; IsStopping.
CycleCheckStopping ==
  /\ supPc = "chkstop"
  /\ supPc' = IF isStopping THEN "dclose" ELSE "prepare"
  /\ UNCHANGED <<clientVars, frameVars, backoffVars, stopVars, todo, tryVars, lastInternalErr, connVars, redirVars,
                 ctxVars, taskVars>>

\* runOneCycle, lines 346-354: PrepareFirstMessage, which may fail; senderCtx is made.
CyclePrepare ==
  /\ supPc = "prepare"
  /\ \E ok \in BOOLEAN :
       /\ supPc' = IF ok THEN "senders" ELSE "dclose"
       /\ todo' = IF ok THEN agents ELSE {}
  /\ UNCHANGED <<clientVars, frameVars, backoffVars, stopVars, tryVars, lastInternalErr, connVars, redirVars,
                 ctxVars, taskVars>>

\* WSSender.Start(senderCtx, c.conn): the first status report is written and, when the
\* write succeeds, the writer loop runs.
SenderStart(k, a, ok) ==
  /\ snd' = [snd EXCEPT ![k][a] = IF ok THEN "run" ELSE @]
  /\ sndErr' = [sndErr EXCEPT ![k][a] = "nil"]

\* runOneCycle, lines 358-369: the next sender of the range over c.senders is started;
\* a failed Start returns, and after the last one receiverCtx is made and the range
\* over c.senders begins again.
CycleStartSender ==
  /\ supPc = "senders"
  /\ \E a \in todo, ok \in BOOLEAN :
       /\ SenderStart(cycle, a, ok)
       /\ todo' = IF ~ok THEN {} ELSE IF todo = {a} THEN agents ELSE todo \ {a}
       /\ supPc' = IF ~ok THEN "dstopsnd" ELSE IF todo = {a} THEN "receivers" ELSE "senders"
  /\ UNCHANGED <<clientVars, frameVars, backoffVars, stopVars, tryVars, lastInternalErr, connVars, redirVars,
                 ctxVars, rcv, rcvRes, coord>>

\* runOneCycle, lines 373-414: NewWSReceiver, r.Start(receiverCtx) and the go statement
\* of the coordinator, for the next agent of the range.
CycleStartReceiver ==
  /\ supPc = "receivers"
  /\ \E a \in todo :
       /\ rcv' = [rcv EXCEPT ![cycle][a] = "wait"]
       /\ coord' = [coord EXCEPT ![cycle][a] = "select"]
       /\ todo' = todo \ {a}
       /\ supPc' = IF todo = {a} THEN "dstoprcv" ELSE "receivers"
  /\ UNCHANGED <<clientVars, frameVars, backoffVars, stopVars, tryVars, lastInternalErr, connVars, redirVars,
                 ctxVars, snd, sndErr, rcvRes>>

\* runOneCycle returns, line 369: the deferred stopReceiver().
DeferStopReceiver ==
  /\ supPc = "dstoprcv"
  /\ rcvCtx' = rcvCtx \cup {cycle}
  /\ supPc' = "dstopsnd"
  /\ UNCHANGED <<clientVars, frameVars, backoffVars, stopVars, todo, tryVars, lastInternalErr, connVars, redirVars,
                 sndCtx, taskVars>>

\* DeferStopSender without the cancellation: runOneCycle returns with senderCtx live.
DeferStopSenderNoCancel ==
  /\ supPc = "dstopsnd"
  /\ supPc' = "dclose"
  /\ UNCHANGED <<sndCtx, clientVars, frameVars, backoffVars, stopVars, todo, tryVars, lastInternalErr, connVars, redirVars,
                 rcvCtx, taskVars>>

\* runOneCycle returns, line 354: the deferred stopSender().
DeferStopSender ==
  /\ supPc = "dstopsnd"
  /\ sndCtx' = sndCtx \cup {cycle}
  /\ supPc' = "dclose"
  /\ UNCHANGED <<clientVars, frameVars, backoffVars, stopVars, todo, tryVars, lastInternalErr, connVars, redirVars,
                 rcvCtx, taskVars>>

\* DeferConnClose without the close: runOneCycle leaves the connection open.
DeferConnCloseLeak ==
  /\ supPc = "dclose"
  /\ supPc' = "loop"
  /\ UNCHANGED <<clientVars, frameVars, backoffVars, stopVars, todo, tryVars, lastInternalErr, connVars,
                 redirVars, ctxVars, taskVars>>

\* runOneCycle returns, line 339: the deferred c.conn.Close().
DeferConnClose ==
  /\ supPc = "dclose"
  /\ connOpen' = connOpen \ {conn}
  /\ supPc' = "loop"
  /\ UNCHANGED <<clientVars, frameVars, backoffVars, stopVars, todo, tryVars, lastInternalErr, conn, connMutex, cycle, accepts,
                 redirVars, ctxVars, taskVars>>

(***************************************************************************)
(* The Sender's writer loop (contract of section 4.B).                     *)
(***************************************************************************)
\* senderCtx is done: it was cancelled, or the cycle context it derives from was.
SenderCtxIsDone(k) == k \in sndCtx \/ ctxCancelled

\* What writing the Close frame may give: nothing can be written to a closed connection.
CloseFrameResults(k) == IF k \in connOpen THEN {"nil", "err"} ELSE {"err"}

\* The writer loop sees its context cancelled: it sends the Close frame and exits.
SenderCtxDone(k, a) ==
  /\ snd[k][a] = "run"
  /\ SenderCtxIsDone(k)
  /\ \E e \in CloseFrameResults(k) :
       /\ snd' = [snd EXCEPT ![k][a] = "stopped"]
       /\ sndErr' = [sndErr EXCEPT ![k][a] = e]
  /\ UNCHANGED <<clientVars, frameVars, backoffVars, stopVars, supPc, todo, tryVars, lastInternalErr, connVars,
                 redirVars, ctxVars, rcv, rcvRes, coord>>

\* A write of the writer loop fails: the loop exits with that error.
SenderWriteError(k, a) ==
  /\ snd[k][a] = "run"
  /\ snd' = [snd EXCEPT ![k][a] = "stopped"]
  /\ sndErr' = [sndErr EXCEPT ![k][a] = "err"]
  /\ UNCHANGED <<clientVars, frameVars, backoffVars, stopVars, supPc, todo, tryVars, lastInternalErr, connVars,
                 redirVars, ctxVars, rcv, rcvRes, coord>>

(***************************************************************************)
(* The Receiver's reader loop, WSReceiver.ReceiverLoop.                    *)
(***************************************************************************)
\* What r.receiveMessage may give: the next frame of the server, decoded, or an error;
\* a read of a closed connection fails.
ReadResults(k) ==
  IF k \in connOpen
    THEN (IF nread < MaxFrames THEN {"msg"} ELSE {}) \cup {"err"}
    ELSE {"err"}

\* The read helper goroutine: receiveMessage returns and the result is sent.
ReceiveMessage(k, a) ==
  /\ rcv[k][a] = "wait"
  /\ rcvRes[k][a] = "none"
  /\ \E r \in ReadResults(k) :
       /\ rcvRes' = [rcvRes EXCEPT ![k][a] = r]
       /\ nread' = IF r = "msg" THEN nread + 1 ELSE nread
       /\ rcvFrame' = [rcvFrame EXCEPT ![k][a] = IF r = "msg" THEN nread + 1 ELSE 0]
  /\ UNCHANGED <<clientVars, dispatched, backoffVars, stopVars, supPc, todo, tryVars,
                 lastInternalErr, connVars, redirVars, ctxVars, snd, sndErr, rcv, coord>>

\* ReceiverLoop, case <-ctx.Done() of the inner select: return, close(r.stopped).
ReceiverCtxDone(k, a) ==
  /\ rcv[k][a] = "wait"
  /\ k \in rcvCtx
  /\ rcv' = [rcv EXCEPT ![k][a] = "stopped"]
  /\ UNCHANGED <<clientVars, frameVars, backoffVars, stopVars, supPc, todo, tryVars, lastInternalErr, connVars,
                 redirVars, ctxVars, snd, sndErr, rcvRes, coord>>

\* ReceiverReadError without the return: the loop goes on to the next read.
ReceiverReadErrorContinues(k, a) ==
  /\ rcv[k][a] = "wait"
  /\ rcvRes[k][a] = "err"
  /\ rcvRes' = [rcvRes EXCEPT ![k][a] = "none"]
  /\ UNCHANGED <<clientVars, frameVars, backoffVars, stopVars, supPc, todo, tryVars,
                 lastInternalErr, connVars, redirVars, ctxVars, snd, sndErr, rcv, coord>>

\* ReceiverLoop, case res := <-result with res.err != nil: return, close(r.stopped).
ReceiverReadError(k, a) ==
  /\ rcv[k][a] = "wait"
  /\ rcvRes[k][a] = "err"
  /\ rcv' = [rcv EXCEPT ![k][a] = "stopped"]
  /\ rcvRes' = [rcvRes EXCEPT ![k][a] = "none"]
  /\ UNCHANGED <<clientVars, frameVars, backoffVars, stopVars, supPc, todo, tryVars,
                 lastInternalErr, connVars, redirVars, ctxVars, snd, sndErr, coord>>

\* ReceiverLoop, case res := <-result with a message: ProcessReceivedMessage (the
\* per-message callbacks), then the outer select: return when ctx is done, else the
\* next read helper is started.
ReceiverProcess(k, a) ==
  /\ rcv[k][a] = "wait"
  /\ rcvRes[k][a] = "msg"
  /\ dispatched' = Append(dispatched, [k |-> k, a |-> a, frame |-> rcvFrame[k][a]])
  /\ rcvFrame' = [rcvFrame EXCEPT ![k][a] = 0]
  /\ rcv' = [rcv EXCEPT ![k][a] = IF k \in rcvCtx THEN "stopped" ELSE "wait"]
  /\ rcvRes' = [rcvRes EXCEPT ![k][a] = "none"]
  /\ UNCHANGED <<clientVars, nread, backoffVars, stopVars, supPc, todo, tryVars,
                 lastInternalErr, connVars, redirVars, ctxVars, snd, sndErr, coord>>

(***************************************************************************)
(* The coordinator goroutine of runOneCycle, lines 385-413.                *)
(***************************************************************************)
\* case <-sender.IsStopped(): with a StoppingErr, stopReceiver(); else the inner select.
CoordSenderStopped(k, a) ==
  /\ coord[k][a] = "select"
  /\ snd[k][a] = "stopped"
  /\ coord' = [coord EXCEPT ![k][a] = IF sndErr[k][a] # "nil" THEN "errWait" ELSE "cleanWait"]
  /\ rcvCtx' = IF sndErr[k][a] # "nil" THEN rcvCtx \cup {k} ELSE rcvCtx
  /\ UNCHANGED <<clientVars, frameVars, backoffVars, stopVars, supPc, todo, tryVars, lastInternalErr, connVars,
                 redirVars, sndCtx, snd, sndErr, rcv, rcvRes>>

\* case <-r.IsStopped() of the outer select: stopSender().
CoordReceiverStopped(k, a) ==
  /\ coord[k][a] = "select"
  /\ rcv[k][a] = "stopped"
  /\ coord' = [coord EXCEPT ![k][a] = "sndWait"]
  /\ sndCtx' = sndCtx \cup {k}
  /\ UNCHANGED <<clientVars, frameVars, backoffVars, stopVars, supPc, todo, tryVars, lastInternalErr, connVars,
                 redirVars, rcvCtx, snd, sndErr, rcv, rcvRes>>

\* case <-r.IsStopped() of the inner select: the receiver stopped within the timeout.
CoordReceiverClosed(k, a) ==
  /\ coord[k][a] = "cleanWait"
  /\ rcv[k][a] = "stopped"
  /\ coord' = [coord EXCEPT ![k][a] = "done"]
  /\ UNCHANGED <<clientVars, frameVars, backoffVars, stopVars, supPc, todo, tryVars, lastInternalErr, connVars,
                 redirVars, ctxVars, snd, sndErr, rcv, rcvRes>>

\* CoordTimeout without stopReceiver(): the timeout only waits for the receiver.
CoordTimeoutNoCancel(k, a) ==
  /\ coord[k][a] = "cleanWait"
  /\ coord' = [coord EXCEPT ![k][a] = "timeoutWait"]
  /\ UNCHANGED <<clientVars, frameVars, backoffVars, stopVars, supPc, todo, tryVars, lastInternalErr, connVars,
                 redirVars, ctxVars, snd, sndErr, rcv, rcvRes>>

\* case <-time.After(c.connShutdownTimeout): stopReceiver().
CoordTimeout(k, a) ==
  /\ coord[k][a] = "cleanWait"
  /\ coord' = [coord EXCEPT ![k][a] = "timeoutWait"]
  /\ rcvCtx' = rcvCtx \cup {k}
  /\ UNCHANGED <<clientVars, frameVars, backoffVars, stopVars, supPc, todo, tryVars, lastInternalErr, connVars,
                 redirVars, sndCtx, snd, sndErr, rcv, rcvRes>>

\* <-r.IsStopped() after stopReceiver(), lines 393 and 404.
CoordJoinReceiver(k, a) ==
  /\ coord[k][a] \in {"errWait", "timeoutWait"}
  /\ rcv[k][a] = "stopped"
  /\ coord' = [coord EXCEPT ![k][a] = "done"]
  /\ UNCHANGED <<clientVars, frameVars, backoffVars, stopVars, supPc, todo, tryVars, lastInternalErr, connVars,
                 redirVars, ctxVars, snd, sndErr, rcv, rcvRes>>

\* <-sender.IsStopped() after stopSender(), line 411.
CoordJoinSender(k, a) ==
  /\ coord[k][a] = "sndWait"
  /\ snd[k][a] = "stopped"
  /\ coord' = [coord EXCEPT ![k][a] = "done"]
  /\ UNCHANGED <<clientVars, frameVars, backoffVars, stopVars, supPc, todo, tryVars, lastInternalErr, connVars,
                 redirVars, ctxVars, snd, sndErr, rcv, rcvRes>>

(***************************************************************************)
(* The received-message processor (contract of section 4.D), as the tests  *)
(* TestRequestRestart and TestNoRequestRestart call it.                    *)
(***************************************************************************)
\* The bits of ServerToAgent.Flags.
Flags == {"RequestRestart", "ReportFullState"}
\* The payload fields of a ServerToAgent message, in the order they are dispatched.
FieldOrder == <<"RemoteConfig", "PackagesAvailable", "ConnectionSettings", "CustomMessage">>
PayloadFields == {FieldOrder[i] : i \in 1..Len(FieldOrder)}
Messages == [flags : SUBSET Flags, fields : SUBSET PayloadFields]

Present(m, f) == f \in m.fields

\* The processor that never looks at the RequestRestart flag.
processIgnoringFlags(m) == SelectSeq(FieldOrder, LAMBDA f : Present(m, f))

\* processReceivedMessage(ctx, msg): the callbacks it invokes, in order (the callback
\* of a payload field is named by the field).
processReceivedMessage(m) ==
  (IF "RequestRestart" \in m.flags THEN <<"OnRestartRequested">> ELSE <<>>)
    \o SelectSeq(FieldOrder, LAMBDA f : Present(m, f))

\* The test body: receiver.processReceivedMessage(context.Background(), msg).
ProcessReceivedMessage ==
  /\ procPc = "ready"
  /\ procPc' = "done"
  /\ invoked' = processReceivedMessage(msg)
  /\ UNCHANGED <<frameVars, startVars, agents, checkRedirectSet, srv, locations, backoffs, retryAfters, backoffVars, msg,
                 stopVars, supPc, todo, tryVars,
                 lastInternalErr, connVars, redirVars, ctxVars, taskVars>>

(***************************************************************************)
(* Stop (contract of section 4.E-shared): the flag is set, the context of  *)
(* runUntilStopped is cancelled, and Stop joins the supervisor.            *)
(***************************************************************************)
StopSetFlag ==
  /\ stopPc = "idle"
  /\ isStopping' = TRUE
  /\ stopPc' = "flagged"
  /\ UNCHANGED <<clientVars, frameVars, backoffVars, ctxCancelled, supPc, todo, tryVars, lastInternalErr, connVars,
                 redirVars, ctxVars, taskVars>>

StopCancel ==
  /\ stopPc = "flagged"
  /\ ctxCancelled' = TRUE
  /\ stopPc' = "joining"
  /\ UNCHANGED <<clientVars, frameVars, backoffVars, isStopping, supPc, todo, tryVars, lastInternalErr, connVars,
                 redirVars, ctxVars, taskVars>>

StopReturn ==
  /\ stopPc = "joining"
  /\ supPc = "exited"
  /\ stopPc' = "returned"
  /\ UNCHANGED <<clientVars, frameVars, backoffVars, isStopping, ctxCancelled, supPc, todo, tryVars, lastInternalErr,
                 connVars, redirVars, ctxVars, taskVars>>

(***************************************************************************)
(* Specifications.                                                         *)
(***************************************************************************)
\* The client after Start: runUntilStopped has been launched on its goroutine, the
\* senders map holds one Sender per agent of the settings.
InitFields ==
  /\ isStopping = FALSE
  /\ ctxCancelled = FALSE
  /\ stopPc = "idle"
  /\ todo = {}
  /\ responseChain = <<>>
  /\ err = "nil"
  /\ resp = NoResp
  /\ redirecting = FALSE
  /\ lastInternalErr = "nil"
  /\ conn = 0
  /\ connMutex = "free"
  /\ connOpen = {}
  /\ cycle = 0
  /\ nresp = 0
  /\ sndCtx = {}
  /\ rcvCtx = {}
  /\ snd = [k \in Cycles |-> [a \in Uids |-> "idle"]]
  /\ sndErr = [k \in Cycles |-> [a \in Uids |-> "nil"]]
  /\ rcv = [k \in Cycles |-> [a \in Uids |-> "idle"]]
  /\ rcvRes = [k \in Cycles |-> [a \in Uids |-> "none"]]
  /\ coord = [k \in Cycles |-> [a \in Uids |-> "idle"]]
  /\ nread = 0
  /\ rcvFrame = [k \in Cycles |-> [a \in Uids |-> 0]]
  /\ dispatched = <<>>
  /\ ocfCalls = 0
  /\ ocfArgs = <<>>
  /\ dialUrl = NoLocation
  /\ interval = 0
  /\ timerDur = 0
  /\ retryAfter = NoRetryAfter
  /\ prevBackoff = 0
  /\ retried = FALSE
  /\ stopAtFail = FALSE
  /\ redirSeen = <<>>
  /\ checkArgs = NoArgs

\* PrepareStart and Start have returned: the senders are in c.senders, c.url is
\* parsed, and StartConnectAndRun has launched runUntilStopped.
InitStarted ==
  /\ startPc = "started"
  /\ tlsConfig = FALSE
  /\ pending = <<>>
  /\ sendersNil = FALSE
  /\ url = StartURL
  /\ supPc = "loop"

InitClient == InitFields /\ InitStarted

\* settings.Agents lists the agents once each.
ListOf(as) == [i \in 1..Cardinality(as) |-> i]

\* The server redirects to http and https URLs, NextBackOff() always returns the same
\* interval and the server sends no Retry-After.
InitNoBackoff ==
  /\ locations = HttpLocations
  /\ backoffs = {1}
  /\ retryAfters = {NoRetryAfter}

\* No message is handed to a processor outside a running receiver.
InitNoProcessor ==
  /\ procPc = "idle"
  /\ msg = [flags |-> {}, fields |-> {}]
  /\ invoked = <<>>

\* One connection is established; every later dial fails.
Init ==
  /\ InitClient
  /\ InitNoProcessor
  /\ InitNoBackoff
  /\ agents \in {1..n : n \in 1..NumAgents}
  /\ settingsAgents = ListOf(agents)
  /\ checkRedirectSet = FALSE
  /\ srv = {"ok", "neterr"}
  /\ accepts = 1

Supervisor ==
  \/ RunUntilStopped
  \/ EnsureTimer
  \/ EnsureCtxDone
  \/ DialComplete
  \/ TryCheckStopping
  \/ TryOnConnectFailed
  \/ TryHandleResponse
  \/ TryDeferred
  \/ TryDeferredOnConnectFailed
  \/ EnsureAfterTry
  \/ ConnLock
  \/ ConnStore
  \/ ConnUnlock
  \/ TryOnConnect
  \/ CycleCheckStopping
  \/ CyclePrepare
  \/ CycleStartSender
  \/ CycleStartReceiver
  \/ DeferStopReceiver
  \/ DeferStopSender
  \/ DeferConnClose

Stop ==
  \/ StopSetFlag
  \/ StopCancel
  \/ StopReturn

Sender(k, a) ==
  \/ SenderCtxDone(k, a)
  \/ SenderWriteError(k, a)

Receiver(k, a) ==
  \/ ReceiveMessage(k, a)
  \/ ReceiverCtxDone(k, a)
  \/ ReceiverReadError(k, a)
  \/ ReceiverProcess(k, a)

Coordinator(k, a) ==
  \/ CoordSenderStopped(k, a)
  \/ CoordReceiverStopped(k, a)
  \/ CoordReceiverClosed(k, a)
  \/ CoordTimeout(k, a)
  \/ CoordJoinReceiver(k, a)
  \/ CoordJoinSender(k, a)

Next ==
  \/ Supervisor
  \/ Stop
  \/ \E k \in Cycles, a \in Uids : Sender(k, a) \/ Receiver(k, a) \/ Coordinator(k, a)

Spec == Init /\ [][Next]_vars

\* The goroutines that can run are scheduled, timers fire, a dial returns, a read of a
\* closed connection returns; whether Stop is called, whether the peer sends or resets,
\* is left open.
Fairness ==
  /\ WF_vars(Supervisor)
  /\ WF_vars(StopCancel \/ StopReturn)
  /\ \A a \in 1..NumFairAgents :
       /\ WF_vars(\E k \in Cycles : SenderCtxDone(k, a))
       /\ WF_vars(\E k \in Cycles : ReceiveMessage(k, a) /\ k \notin connOpen)
       /\ WF_vars(\E k \in Cycles : ReceiverCtxDone(k, a) \/ ReceiverReadError(k, a)
                                        \/ ReceiverProcess(k, a))
       /\ WF_vars(\E k \in Cycles : Coordinator(k, a))

InitFair ==
  /\ InitClient
  /\ InitNoProcessor
  /\ InitNoBackoff
  /\ agents \in {1..n : n \in 1..NumFairAgents}
  /\ settingsAgents = ListOf(agents)
  /\ checkRedirectSet = FALSE
  /\ srv = {"ok", "neterr"}
  /\ accepts = 1

FairSpec == InitFair /\ [][Next]_vars /\ Fairness

\* The supervisor and Stop alone, with one agent, against a server that also answers
\* failed upgrades with 5xx and 3xx responses: the tasks a cycle starts are not
\* scheduled (the supervisor reads nothing they write).
InitConnect ==
  /\ InitClient
  /\ InitNoProcessor
  /\ InitNoBackoff
  /\ agents = {1}
  /\ settingsAgents = ListOf(agents)
  /\ checkRedirectSet \in BOOLEAN
  /\ srv = {"ok", "neterr", "5xx", "3xx"}
  /\ accepts = MaxCycles

NextConnect == Supervisor \/ Stop

SpecConnect == InitConnect /\ [][NextConnect]_vars

\* One agent and a server that accepts a connection in every cycle: the tasks of a
\* cycle run while the supervisor goes on to the next cycle.
InitCycles ==
  /\ InitClient
  /\ InitNoProcessor
  /\ InitNoBackoff
  /\ agents = {1}
  /\ settingsAgents = ListOf(agents)
  /\ checkRedirectSet = FALSE
  /\ srv = {"ok", "neterr"}
  /\ accepts = MaxCycles

SpecCycles == InitCycles /\ [][Next]_vars

\* The backoff draws its intervals from a range and the server may send Retry-After.
InitBackoff ==
  /\ InitClient
  /\ InitNoProcessor
  /\ agents = {1}
  /\ settingsAgents = ListOf(agents)
  /\ checkRedirectSet = FALSE
  /\ srv = {"ok", "neterr", "5xx"}
  /\ accepts = 1
  /\ locations = HttpLocations
  /\ backoffs = 1..MaxBackoff
  /\ retryAfters = {NoRetryAfter} \cup 1..MaxRetryAfter

\* A server that redirects, with every kind of Location, until it accepts; a dial may also
\* fail on the network.
InitRedirect ==
  /\ InitClient
  /\ InitNoProcessor
  /\ agents = {1}
  /\ settingsAgents = ListOf(agents)
  /\ checkRedirectSet \in BOOLEAN
  /\ srv = {"ok", "neterr", "3xx"}
  /\ accepts = 1
  /\ locations = Locations
  /\ backoffs = {1}
  /\ retryAfters = {NoRetryAfter}

SpecRedirect == InitRedirect /\ [][NextConnect]_vars

SpecBackoff == InitBackoff /\ [][NextConnect]_vars

\* The settings.Agents a caller may give.
AgentLists == UNION {[1..n -> Uids] : n \in 0..MaxAgentList}

\* The client as NewWebSocket returns it, and the settings PrepareStart and Start get.
InitNew ==
  /\ InitFields
  /\ InitNoProcessor
  /\ InitNoBackoff
  /\ startPc = "new"
  /\ settingsAgents \in AgentLists
  /\ pending = settingsAgents
  /\ tlsConfig \in BOOLEAN
  /\ sendersNil = TRUE
  /\ agents = {}
  /\ url = NoLocation
  /\ supPc = "none"
  /\ checkRedirectSet = FALSE
  /\ srv = {}
  /\ accepts = 0

NextStart == PrepareStartAgent \/ PrepareStartCommon \/ StartClient

SpecStart == InitNew /\ [][NextStart]_vars

\* A processor constructed as in the tests and given one ServerToAgent message.
InitProcessor ==
  /\ InitClient
  /\ InitNoBackoff
  /\ settingsAgents = <<1>>
  /\ agents = {1}
  /\ checkRedirectSet = FALSE
  /\ srv = {}
  /\ accepts = 0
  /\ procPc = "ready"
  /\ msg \in Messages
  /\ invoked = <<>>

NextProcessor == ProcessReceivedMessage

SpecProcessor == InitProcessor /\ [][NextProcessor]_vars

(***************************************************************************)
(* The claims.                                                             *)
(***************************************************************************)
\* The supervisor is inside ensureConnected.
EnsureStates == {"timer", "dialing", "chk1", "ocf1", "resp", "deferred", "ocf2", "tryret",
                 "lock", "store", "unlock", "onconnect"}

\* runOneCycle has returned from cycle k and its deferred close has taken effect.
CycleReturned(k) == k <= cycle /\ k \notin connOpen

\* C1: when runOneCycle has returned and closed the connection of a cycle, every
\* writer loop and every reader loop started in that cycle has stopped.
C1_NoTaskOutlivesCycle ==
  \A k \in Cycles : CycleReturned(k) =>
    \A a \in Uids : snd[k][a] # "run" /\ rcv[k][a] # "wait"

\* C2: a step that cancels the receiver context of a cycle while one of its receivers
\* is running is the coordinator's stopReceiver() after a sender stopped with a
\* StoppingErr, or the coordinator's stopReceiver() on the shutdown timeout.
C2_ReceiverCancelledOnlyByCoordinator ==
  [][\A k \in Cycles :
       (k \in rcvCtx' /\ k \notin rcvCtx /\ \E a \in Uids : rcv[k][a] = "wait")
         => \E a \in Uids : (CoordSenderStopped(k, a) /\ sndErr[k][a] # "nil")
                              \/ CoordTimeout(k, a)]_vars

\* C3: a coordinator past the shutdown timeout has cancelled the receiver context, and
\* a receiver that runs while its sender has stopped cleanly eventually stops.
C3_CloseHandshakeBound ==
  \A k \in Cycles, a \in Uids :
    /\ [](coord[k][a] = "timeoutWait" => k \in rcvCtx)
    /\ (snd[k][a] = "stopped" /\ sndErr[k][a] = "nil" /\ rcv[k][a] = "wait")
         ~> (rcv[k][a] = "stopped")

\* C3: the sender stopped cleanly, the timeout elapsed, and the receiver has stopped.
C3_Witness ==
  \E k \in Cycles, a \in Uids :
    /\ snd[k][a] = "stopped" /\ sndErr[k][a] = "nil"
    /\ coord[k][a] = "timeoutWait"
    /\ rcv[k][a] = "stopped"

\* A user callback fires: OnConnect, OnConnectFailed, CheckRedirect, or the callbacks
\* of a receiver's processor.
CallbackFires ==
  \/ TryOnConnect
  \/ TryOnConnectFailed
  \/ TryDeferredOnConnectFailed
  \/ (TryHandleResponse /\ checkArgs'.called)
  \/ \E k \in Cycles, a \in Uids : ReceiverProcess(k, a)

\* C4: once Stop has returned, no dial starts and no user callback fires.
C4_StopFinality ==
  [][stopPc = "returned" => ~(EnsureTimer \/ CallbackFires)]_vars

\* C5: once the stopping flag is set and the supervisor's context is cancelled, the
\* supervisor eventually leaves runUntilStopped.
C5_StopLeadsToExit ==
  (isStopping /\ ctxCancelled) ~> (supPc = "exited")

\* C5: the supervisor has left runUntilStopped after a dial was aborted by the
\* cancellation.
C5_Witness ==
  /\ supPc = "exited"
  /\ ctxCancelled
  /\ lastInternalErr = "canceled"

\* C6: when a receiver has stopped while its sender still runs and the client is not
\* stopping, the sender context of the cycle gets cancelled and the supervisor is
\* again in ensureConnected, the start of a fresh cycle (or the client is stopping).
C6_ReconnectAfterReceiverFailure ==
  \A k \in Cycles, a \in Uids :
    (rcv[k][a] = "stopped" /\ snd[k][a] = "run" /\ ~isStopping)
      ~> (k \in sndCtx /\ (supPc \in EnsureStates \/ isStopping))

\* C6: the coordinator took the receiver-stopped branch, the sender context is
\* cancelled, and the supervisor, not stopping, is in ensureConnected again.
C6_Witness ==
  \E k \in Cycles, a \in Uids :
    /\ rcv[k][a] = "stopped"
    /\ coord[k][a] = "sndWait"
    /\ k \in sndCtx
    /\ supPc \in EnsureStates
    /\ ~isStopping

\* C7: at most one connection is open, none is open while the supervisor dials, and
\* c.conn changes only under the write lock of connMutex.
C7_ConnectionUniqueness ==
  /\ [](Cardinality(connOpen) <= 1 /\ (supPc = "dialing" => connOpen = {}))
  /\ [][conn' # conn => connMutex = "supervisor"]_vars

\* C7: the supervisor dials again after the connection of an earlier cycle was stored
\* and closed.
C7_Witness ==
  /\ supPc = "dialing"
  /\ conn >= 1
  /\ conn = cycle
  /\ connOpen = {}

RestartCalls == Cardinality({i \in 1..Len(invoked) : invoked[i] = "OnRestartRequested"})

\* C8: processing a message whose flags contain RequestRestart invokes
\* OnRestartRequested exactly once, and processing a message with no flag set does
\* not invoke it.
C8_RestartFlag ==
  procPc = "done" =>
    /\ ("RequestRestart" \in msg.flags => RestartCalls = 1)
    /\ (msg.flags = {} => RestartCalls = 0)

\* C8: the message of TestRequestRestart has been processed.
C8_Witness ==
  /\ procPc = "done"
  /\ msg = [flags |-> {"RequestRestart"}, fields |-> {}]
  /\ RestartCalls = 1

\* C9, as stated: OnConnectFailed is not invoked while the stopping flag is set, it
\* has been invoked by the end of a failed attempt when the client is not stopping,
\* and an attempt that failed with the cancellation did not invoke it.
C9_Original ==
  /\ supPc \in {"ocf1", "ocf2"} => ~isStopping
  /\ (supPc = "tryret" /\ err # "nil" /\ ~isStopping) => ocfCalls >= 1
  /\ err = "canceled" => ocfCalls = 0

\* C9, amended: OnConnectFailed has been invoked by the end of a failed attempt when
\* the client is not stopping; an attempt whose dial failed with the stopping flag
\* already set, as every dial aborted by Stop's cancellation, never invokes it.
C9_OnConnectFailedUnlessStopping ==
  /\ (supPc = "tryret" /\ err # "nil" /\ ~isStopping) => ocfCalls >= 1
  /\ stopAtFail => ocfCalls = 0
  /\ err = "canceled" => (stopAtFail /\ ocfCalls = 0)

\* C9: an attempt ends whose dial was aborted by Stop's cancellation, with no
\* invocation of OnConnectFailed.
C9_Witness ==
  /\ supPc = "tryret"
  /\ err = "canceled"
  /\ ocfCalls = 0

\* C10: CheckRedirect receives exactly the consecutive redirect responses of the
\* current connection establishment, in order, with their requests.
C10_RedirectChainPreserved ==
  checkArgs.called =>
    /\ checkArgs.via = redirSeen
    /\ checkArgs.reqs = [i \in 1..Len(redirSeen) |-> redirSeen[i].req]

\* tryConnectOnce has run its deferred function and is about to return.
AttemptEnded == supPc = "tryret"

\* The attempt that is ending failed without a 3xx response.
FailedWithoutRedirect == err # "nil" /\ (resp = NoResp \/ resp.status # "3xx")

\* C11: after a tryConnectOnce that connects the responseChain is empty, after one that
\* fails without a 3xx response it is empty, and between attempts it is non-empty only
\* while the current connection establishment has seen a redirect response.
C11_ResponseChainCleared ==
  /\ (AttemptEnded /\ err = "nil") => responseChain = <<>>
  /\ (AttemptEnded /\ FailedWithoutRedirect) => responseChain = <<>>
  /\ (supPc \in {"timer", "dialing"} /\ responseChain # <<>>) => redirSeen # <<>>

\* C15: ensureConnected returns an error only when its context has been cancelled:
\* an attempt whose error makes ensureConnected return (errors.Is(err,
\* context.Canceled)) happens only with the context cancelled.
C15_GivesUpOnlyWhenCancelled ==
  (AttemptEnded /\ IsCanceled(err)) => ctxCancelled

\* The attempt that is ending got a 3xx response with a valid Location that
\* CheckRedirect, if set, accepted.
RedirectAccepted ==
  /\ resp # NoResp /\ resp.status = "3xx"
  /\ resp.loc # NoLocation
  /\ err \notin {"urlerr", "urlerrCanceled"}

\* C12: after an accepted redirect the attempt returns an error and c.url is the
\* Location with http rewritten to ws, https to wss, any other scheme and the host
\* unchanged; and the attempt that follows an accepted redirect dials that URL.
C12_RedirectRewritesURL ==
  /\ (AttemptEnded /\ RedirectAccepted) =>
       /\ err # "nil"
       /\ url.host = resp.loc.host
       /\ resp.loc.scheme = "http" => url.scheme = "ws"
       /\ resp.loc.scheme = "https" => url.scheme = "wss"
       /\ resp.loc.scheme \notin {"http", "https"} => url.scheme = resp.loc.scheme
  /\ (supPc = "dialing" /\ retried /\ redirSeen # <<>> /\ lastInternalErr = "badHandshake") =>
       /\ dialUrl = url
       /\ dialUrl.host = redirSeen[Len(redirSeen)].loc.host
       /\ dialUrl.scheme \in {"ws", "wss"}

\* C12: the attempt after an accepted redirect to https://h3 dials wss://h3.
C12_Witness ==
  /\ supPc = "dialing"
  /\ retried
  /\ redirSeen # <<>>
  /\ redirSeen[Len(redirSeen)].loc = [scheme |-> "https", host |-> "h3"]
  /\ dialUrl = [scheme |-> "wss", host |-> "h3"]

\* C13: when CheckRedirect rejects a redirect and the client is not stopping, the
\* attempt ends with the wrapped error, c.url is still the URL that was dialled, and
\* OnConnectFailed has been given the wrapped error.
C13_RejectionSurfaced ==
  (AttemptEnded /\ err \in {"urlerr", "urlerrCanceled"} /\ ~isStopping) =>
    /\ url = dialUrl
    /\ \E i \in 1..Len(ocfArgs) : ocfArgs[i] = err

Max(x, y) == IF x >= y THEN x ELSE y

\* C14: the timer before the first attempt of ensureConnected is armed with zero, and
\* the timer before a later attempt with the backoff interval drawn before the previous
\* attempt, or with the larger of it and the Retry-After hint of the previous attempt.
C14_BackoffWait ==
  supPc = "dialing" =>
    timerDur = IF ~retried THEN 0
               ELSE IF retryAfter # NoRetryAfter THEN Max(prevBackoff, retryAfter)
               ELSE prevBackoff

\* C14: an attempt starts after a wait of the Retry-After hint, which exceeded the
\* backoff interval.
C14_Witness ==
  /\ supPc = "dialing"
  /\ retried
  /\ retryAfter > prevBackoff
  /\ timerDur = retryAfter

\* C20: a failed attempt that ends with the client not stopping has invoked
\* OnConnectFailed exactly once, with the error the attempt returns.
C20_OnConnectFailedOnce ==
  (AttemptEnded /\ err # "nil" /\ ~isStopping) =>
    /\ ocfCalls = 1
    /\ ocfArgs = <<err>>

Range(f) == {f[i] : i \in DOMAIN f}

\* C16: PrepareStart completes, and once it has, c.senders is a map whose keys are
\* exactly the InstanceUids of settings.Agents.
C16_SendersEstablished ==
  /\ startPc # "panicked"
  /\ startPc \in {"prepared", "started"} => (~sendersNil /\ agents = Range(settingsAgents))

\* The frames of the messages handed to the processors, in the order of the hand-over.
DispatchedFrames == [i \in 1..Len(dispatched) |-> dispatched[i].frame]

\* C17: messages are handed to the processors in the order in which their frames were
\* read from the socket.
C17_DispatchInOrder ==
  \A i, j \in 1..Len(dispatched) : i < j => DispatchedFrames[i] < DispatchedFrames[j]

\* In cycle k a sender's Start failed after the sender of another agent was started:
\* some writer loop was spawned, some was not, and no receiver was started.
StartFailedAmongSeveral(k) ==
  /\ \E a \in agents : snd[k][a] # "idle"
  /\ \E a \in agents : snd[k][a] = "idle"
  /\ \A a \in agents : rcv[k][a] = "idle"

\* C18, as stated: when runOneCycle has returned because a sender's Start failed, the
\* sender context of the senders already started in the cycle is not cancelled.
C18_Original ==
  \A k \in Cycles : (CycleReturned(k) /\ StartFailedAmongSeveral(k)) => k \notin sndCtx

\* C18, amended: when runOneCycle has returned because a sender's Start failed, its
\* deferred stopSender() has cancelled the context of the senders already started.
C18_StartFailureCancelsSenders ==
  \A k \in Cycles : (CycleReturned(k) /\ StartFailedAmongSeveral(k)) => k \in sndCtx

\* C18: a cycle of two agents has returned after the second Start failed, and the
\* sender that was started has stopped on the cancellation without a write error.
C18_Witness ==
  \E k \in Cycles, a \in Uids :
    /\ CycleReturned(k) /\ StartFailedAmongSeveral(k)
    /\ snd[k][a] = "stopped"
    /\ k \in sndCtx
    /\ ~ctxCancelled

\* The messages receiver a of cycle k has handed to its processor.
DispatchedBy(k, a, d) == {i \in 1..Len(d) : d[i].k = k /\ d[i].a = a}

\* C19: a reader loop whose read returned an error hands no message to the processor
\* and takes the result only to exit; a stopped reader loop stays stopped (its stopped
\* channel is closed once) and hands no message to the processor.
C19_ReaderStopsOnError ==
  [][\A k \in Cycles, a \in Uids :
       /\ (rcv[k][a] = "wait" /\ rcvRes[k][a] = "err") =>
            /\ DispatchedBy(k, a, dispatched') = DispatchedBy(k, a, dispatched)
            /\ rcvRes'[k][a] # "err" => rcv'[k][a] = "stopped"
       /\ rcv[k][a] = "stopped" =>
            /\ rcv'[k][a] = "stopped"
            /\ DispatchedBy(k, a, dispatched') = DispatchedBy(k, a, dispatched)]_vars

\* C19: a reader loop that handed a message to its processor has stopped on a read
\* error, with its context live and the connection open.
C19_Witness ==
  \E k \in Cycles, a \in Uids :
    /\ rcv[k][a] = "stopped"
    /\ k \notin rcvCtx
    /\ k \in connOpen
    /\ DispatchedBy(k, a, dispatched) # {}

\* The cycles whose writer loop on the Sender of agent a is running.
WriterLoops(a) == {k \in Cycles : snd[k][a] = "run"}

\* The cycles whose reader loop for agent a is running.
ReaderLoops(a) == {k \in Cycles : rcv[k][a] = "wait"}

\* C21: at any moment every agent's Sender has at most one running writer loop, and
\* every agent has at most one running reader loop, across consecutive cycles.
C21_OneLoopPerAgent ==
  \A a \in Uids : Cardinality(WriterLoops(a)) <= 1 /\ Cardinality(ReaderLoops(a)) <= 1

====
